---- MODULE Spec2Model ----
(***************************************************************************)
(* Frame selection and caption alignment of youtube2slides.                *)
(*                                                                         *)
(* Times are kept in ticks, TicksPerSec ticks to the second, so that the   *)
(* float 'start' of a caption entry (10.5 s) has an exact value.  A loop   *)
(* variable 'sec' of the code is an int number of seconds; the key it      *)
(* stores in frame_dict is sec * TicksPerSec.  A text is a sequence of     *)
(* one-character strings.                                                  *)
(***************************************************************************)
EXTENDS Integers, Sequences, FiniteSets, TLC

\* ------------------------------------------------------------------ bounds
TicksPerSec == 2          \* resolution of fractional seconds
MaxEntries  == 2          \* longest caption corpus
MaxFrames   == 43         \* largest CAP_PROP_FRAME_COUNT
MaxSegments == 3          \* most 600 s segments of one audio file
MaxRun      == 3          \* longest corpus handed to the segmenter alone

\* -------------------------------------------------------- program constants
WindowSize  == 15         \* window_size=15 of the scheduler's caption queries
GapSeconds  == 2          \* "start_time - last_end_time < 2.0"
NoFrame     == -1         \* prev_frame = None
SegmentLength == 600      \* "current_start_time += 600", segment_length=600

VARIABLES
    self,         \* configuration fields of the extractor object
    video,        \* the downloaded file as cv2 reports it: fps, total_frames
    transcript,   \* the corpus download_transcript returned (a list)
    pc,           \* position in extract_frames_advanced
    cap,          \* the cv2.VideoCapture handle
    sec,          \* loop variable of "for sec in range(...)"
    frame_dict,   \* key (ticks) -> (img_path, text)
    prev_frame,   \* time of the frame held in prev_frame, or NoFrame
    result,       \* the returned triple
    files,        \* image paths whose cv2.imwrite returned True
    reads,        \* history: sample key -> ret of its cap.read()
    seg_reads,    \* history: split reads attempted, [t, s, ret]
    origin,       \* history: key -> branch that inserted it
    error,        \* history: the except branch was taken
    proc,         \* process(): its inputs, position and return value
    call          \* one call of a helper: its arguments and return value

vars == <<self, video, transcript, pc, cap, sec, frame_dict, prev_frame,
          result, files, reads, seg_reads, origin, error, proc, call>>

\* ------------------------------------------------------------------- texts
Space   == " "
Newline == "\n"

IsSpace(c) == c \in {Space, Newline}

RECURSIVE LStrip(_)
LStrip(s) == IF s # <<>> /\ IsSpace(Head(s)) THEN LStrip(Tail(s)) ELSE s

RECURSIVE RStrip(_)
RStrip(s) ==
    IF s # <<>> /\ IsSpace(s[Len(s)]) THEN RStrip(SubSeq(s, 1, Len(s) - 1)) ELSE s

\* str.strip()
Strip(s) == RStrip(LStrip(s))

\* sep.join(parts)
RECURSIVE Join(_, _)
Join(sep, parts) ==
    IF parts = <<>> THEN <<>>
    ELSE IF Len(parts) = 1 THEN parts[1]
    ELSE parts[1] \o <<sep>> \o Join(sep, Tail(parts))

Abs(x) == IF x < 0 THEN -x ELSE x

\* ----------------------------------------------------- sorting (stable)
RECURSIVE InsertByStart(_, _)
InsertByStart(e, s) ==
    IF s = <<>> THEN <<e>>
    ELSE IF e.start < Head(s).start THEN <<e>> \o s
    ELSE <<Head(s)>> \o InsertByStart(e, Tail(s))

\* sorted(transcript, key=lambda x: x['start']): entries of equal start keep
\* their order in the list
RECURSIVE SortByStart(_)
SortByStart(s) ==
    IF s = <<>> THEN <<>>
    ELSE InsertByStart(s[Len(s)], SortByStart(SubSeq(s, 1, Len(s) - 1)))

Min(S) == CHOOSE x \in S : \A y \in S : x <= y

Max(S) == CHOOSE x \in S : \A y \in S : x >= y

\* mutant of SortedKeys: sorted(..., reverse=True)
RECURSIVE SortedKeysReversed(_)
SortedKeysReversed(S) ==
    IF S = {} THEN <<>> ELSE <<Max(S)>> \o SortedKeysReversed(S \ {Max(S)})

\* sorted(frame_dict.keys())
RECURSIVE SortedKeys(_)
SortedKeys(S) ==
    IF S = {} THEN <<>> ELSE <<Min(S)>> \o SortedKeys(S \ {Min(S)})

\* ------------------------------------------------ _get_transcript_at_time
\* mutant of ScanRelevant: close entries are merged in both modes
RECURSIVE ScanRelevantAlwaysMerges(_, _, _, _, _)
ScanRelevantAlwaysMerges(sorted, time_sec, window_size, relevant_parts, last_end_time) ==
    IF sorted = <<>> THEN relevant_parts
    ELSE
        LET entry == Head(sorted)
            text  == Strip(entry.text)
        IN  IF Abs(entry.start - time_sec) <= window_size /\ text # <<>>
            THEN IF /\ relevant_parts # <<>>
                    /\ entry.start - last_end_time < GapSeconds * TicksPerSec
                 THEN ScanRelevantAlwaysMerges(Tail(sorted), time_sec,
                          window_size,
                          [relevant_parts EXCEPT ![Len(relevant_parts)] =
                               @ \o <<Space>> \o text],
                          entry.start + entry.duration)
                 ELSE ScanRelevantAlwaysMerges(Tail(sorted), time_sec,
                          window_size, Append(relevant_parts, text),
                          entry.start + entry.duration)
            ELSE ScanRelevantAlwaysMerges(Tail(sorted), time_sec,
                     window_size, relevant_parts, last_end_time)

RECURSIVE ScanRelevant(_, _, _, _, _)
ScanRelevant(sorted, time_sec, window_size, relevant_parts, last_end_time) ==
    IF sorted = <<>> THEN relevant_parts
    ELSE
        LET entry == Head(sorted)
            text  == Strip(entry.text)
        IN  IF Abs(entry.start - time_sec) <= window_size /\ text # <<>>
            THEN IF /\ self.compact_text
                    /\ relevant_parts # <<>>
                    /\ entry.start - last_end_time < GapSeconds * TicksPerSec
                 THEN ScanRelevant(Tail(sorted), time_sec, window_size,
                          [relevant_parts EXCEPT ![Len(relevant_parts)] =
                               @ \o <<Space>> \o text],
                          entry.start + entry.duration)
                 ELSE ScanRelevant(Tail(sorted), time_sec, window_size,
                          Append(relevant_parts, text),
                          entry.start + entry.duration)
            ELSE ScanRelevant(Tail(sorted), time_sec, window_size,
                     relevant_parts, last_end_time)

\* mutant of GetTranscriptAtTime: the parts are joined by line breaks in
\* both modes
GetTranscriptAtTimeByLines(tr, time_sec, window_size) ==
    IF tr = <<>> THEN <<>>
    ELSE LET parts == ScanRelevant(SortByStart(tr), time_sec, window_size,
                                   <<>>, -1 * TicksPerSec)
         IN  Join(Newline, parts)

\* time_sec and window_size in ticks
GetTranscriptAtTime(tr, time_sec, window_size) ==
    IF tr = <<>> THEN <<>>
    ELSE LET parts == ScanRelevant(SortByStart(tr), time_sec, window_size,
                                   <<>>, -1 * TicksPerSec)
         IN  IF self.compact_text THEN Join(Space, parts)
             ELSE Join(Newline, parts)

\* ------------- YouTubeTutorialExtractor._get_transcript_at_time (basic)
RECURSIVE BasicScanRelevant(_, _, _, _, _)
BasicScanRelevant(sorted, time_sec, window_size, relevant_parts, last_end_time) ==
    IF sorted = <<>> THEN relevant_parts
    ELSE
        LET entry == Head(sorted)
            text  == Strip(entry.text)
        IN  IF Abs(entry.start - time_sec) <= window_size /\ text # <<>>
            THEN IF /\ self.compact_text
                    /\ relevant_parts # <<>>
                    /\ entry.start - last_end_time < GapSeconds * TicksPerSec
                 THEN BasicScanRelevant(Tail(sorted), time_sec, window_size,
                          [relevant_parts EXCEPT ![Len(relevant_parts)] =
                               @ \o <<Space>> \o text],
                          entry.start + entry.duration)
                 ELSE BasicScanRelevant(Tail(sorted), time_sec, window_size,
                          Append(relevant_parts, text),
                          entry.start + entry.duration)
            ELSE BasicScanRelevant(Tail(sorted), time_sec, window_size,
                     relevant_parts, last_end_time)

BasicGetTranscriptAtTime(tr, time_sec, window_size) ==
    IF tr = <<>> THEN <<>>
    ELSE LET parts == BasicScanRelevant(SortByStart(tr), time_sec,
                                        window_size, <<>>, -1 * TicksPerSec)
         IN  IF self.compact_text THEN Join(Space, parts)
             ELSE Join(Newline, parts)

\* ------------------------------------------- TranscriptQualitySelector
\* A score is an exact fraction num/den in lowest terms (the code computes
\* the same quantities in floating point).
RECURSIVE Gcd(_, _)
Gcd(a, b) == IF b = 0 THEN a ELSE Gcd(b, a % b)

Rat(n, d) == LET g == Gcd(n, d) IN [num |-> n \div g, den |-> d \div g]

RatAdd(a, b) == Rat(a.num * b.den + b.num * a.den, a.den * b.den)

RatTimes(n, d, a) == Rat(n * a.num, d * a.den)

RatLess(a, b) == a.num * b.den < b.num * a.den

RatMin1(a) == IF a.num > a.den THEN Rat(1, 1) ELSE a

\* len(text.split()): the maximal runs of non-whitespace characters
WordCount(text) ==
    Cardinality({i \in 1..Len(text) :
                    /\ ~IsSpace(text[i])
                    /\ (i = 1 \/ IsSpace(text[i - 1]))})

\* the two sums of the loop over the entries, taken by halves
RECURSIVE LengthBetween(_, _, _)
LengthBetween(tr, lo, hi) ==
    IF lo > hi THEN 0
    ELSE IF lo = hi THEN Len(tr[lo].text)
         ELSE LET mid == (lo + hi) \div 2
              IN  LengthBetween(tr, lo, mid) + LengthBetween(tr, mid + 1, hi)

TotalLength(tr) == LengthBetween(tr, 1, Len(tr))

RECURSIVE WordsBetween(_, _, _)
WordsBetween(tr, lo, hi) ==
    IF lo > hi THEN 0
    ELSE IF lo = hi THEN WordCount(tr[lo].text)
         ELSE LET mid == (lo + hi) \div 2
              IN  WordsBetween(tr, lo, mid) + WordsBetween(tr, mid + 1, hi)

TotalWords(tr) == WordsBetween(tr, 1, Len(tr))

EvaluateWithoutSegmentCount(tr) ==
    IF tr = <<>> THEN Rat(0, 1)
    ELSE
        LET total_length  == TotalLength(tr)
            word_count    == TotalWords(tr)
            segment_count == Len(tr)
            length_penalty ==
                IF total_length < 10 * segment_count
                THEN Rat(total_length, 10 * segment_count)
                ELSE IF total_length > 100 * segment_count
                     THEN Rat(100 * segment_count, total_length)
                     ELSE Rat(1, 1)
            word_length_score ==
                IF word_count > 0
                THEN RatMin1(Rat(total_length, 3 * word_count))
                ELSE Rat(0, 1)
        IN  RatAdd(RatTimes(5, 10, length_penalty),
                   RatTimes(3, 10, word_length_score))

EvaluateTranscriptQuality(tr) ==
    IF tr = <<>> THEN Rat(0, 1)
    ELSE
        LET total_length  == TotalLength(tr)
            word_count    == TotalWords(tr)
            segment_count == Len(tr)
            length_penalty ==
                IF total_length < 10 * segment_count
                THEN Rat(total_length, 10 * segment_count)
                ELSE IF total_length > 100 * segment_count
                     THEN Rat(100 * segment_count, total_length)
                     ELSE Rat(1, 1)
            word_length_score ==
                IF word_count > 0
                THEN RatMin1(Rat(total_length, 3 * word_count))
                ELSE Rat(0, 1)
        IN  RatAdd(RatAdd(RatTimes(5, 10, length_penalty),
                          RatTimes(3, 10, word_length_score)),
                   RatTimes(2, 10, RatMin1(Rat(segment_count, 100))))

SelectOnTie(youtube_transcript, whisper_transcript, force_whisper) ==
    IF force_whisper
    THEN IF whisper_transcript # <<>> THEN whisper_transcript
         ELSE IF youtube_transcript # <<>> THEN youtube_transcript
              ELSE <<>>
    ELSE LET youtube_score == EvaluateTranscriptQuality(youtube_transcript)
             whisper_score == EvaluateTranscriptQuality(whisper_transcript)
         IN  IF ~RatLess(whisper_score, youtube_score)
             THEN whisper_transcript
             ELSE youtube_transcript

SelectForcedUnchecked(youtube_transcript, whisper_transcript, force_whisper) ==
    IF force_whisper
    THEN whisper_transcript
    ELSE LET youtube_score == EvaluateTranscriptQuality(youtube_transcript)
             whisper_score == EvaluateTranscriptQuality(whisper_transcript)
         IN  IF RatLess(youtube_score, whisper_score)
             THEN whisper_transcript
             ELSE youtube_transcript

SelectBestTranscript(youtube_transcript, whisper_transcript, force_whisper) ==
    IF force_whisper
    THEN IF whisper_transcript # <<>> THEN whisper_transcript
         ELSE IF youtube_transcript # <<>> THEN youtube_transcript
              ELSE <<>>
    ELSE LET youtube_score == EvaluateTranscriptQuality(youtube_transcript)
             whisper_score == EvaluateTranscriptQuality(whisper_transcript)
         IN  IF RatLess(youtube_score, whisper_score)
             THEN whisper_transcript
             ELSE youtube_transcript

\* mutant of DownloadTranscript: the native corpus whenever there is one
DownloadTranscriptNativeFirst(youtube, whisper, force_whisper) ==
    LET youtube_transcript == IF youtube.ok THEN youtube.data ELSE <<>>
        whisper_transcript ==
            IF whisper.use /\ whisper.ok THEN whisper.data ELSE <<>>
    IN  IF youtube_transcript # <<>> THEN youtube_transcript
        ELSE IF whisper_transcript # <<>> THEN whisper_transcript
             ELSE <<>>

\* EnhancedYouTubeTutorialExtractor.download_transcript(video_path)
DownloadTranscript(youtube, whisper, force_whisper) ==
    LET youtube_transcript == IF youtube.ok THEN youtube.data ELSE <<>>
        whisper_transcript ==
            IF whisper.use /\ whisper.ok THEN whisper.data ELSE <<>>
    IN  IF youtube_transcript # <<>> /\ whisper_transcript # <<>>
        THEN SelectBestTranscript(youtube_transcript, whisper_transcript,
                                  force_whisper)
        ELSE IF youtube_transcript # <<>> THEN youtube_transcript
             ELSE IF whisper_transcript # <<>> THEN whisper_transcript
                  ELSE <<>>

\* --------------------------------------------------- _split_text_by_amount
\* mutant of Accumulate: the split point is the end of the entry
RECURSIVE AccumulateEntryEnds(_, _, _)
AccumulateEntryEnds(entries, accumulated_text, split_points) ==
    IF entries = <<>> THEN split_points
    ELSE LET entry == Head(entries)
             acc   == accumulated_text \o <<Space>> \o entry.text
         IN  IF Len(acc) >= self.max_text_length
             THEN AccumulateEntryEnds(Tail(entries), <<>>,
                      Append(split_points, entry.start + entry.duration))
             ELSE AccumulateEntryEnds(Tail(entries), acc, split_points)

\* mutant of Accumulate: accumulated_text += entry['text']
RECURSIVE AccumulateTextOnly(_, _, _)
AccumulateTextOnly(entries, accumulated_text, split_points) ==
    IF entries = <<>> THEN split_points
    ELSE LET entry == Head(entries)
             acc   == accumulated_text \o entry.text
         IN  IF Len(acc) >= self.max_text_length
             THEN AccumulateTextOnly(Tail(entries), <<>>,
                                     Append(split_points, entry.start))
             ELSE AccumulateTextOnly(Tail(entries), acc, split_points)

RECURSIVE Accumulate(_, _, _)
Accumulate(entries, accumulated_text, split_points) ==
    IF entries = <<>> THEN split_points
    ELSE LET entry == Head(entries)
             acc   == accumulated_text \o <<Space>> \o entry.text
         IN  IF Len(acc) >= self.max_text_length
             THEN Accumulate(Tail(entries), <<>>,
                             Append(split_points, entry.start))
             ELSE Accumulate(Tail(entries), acc, split_points)

\* mutant of TimeRangeEntries: start_time <= entry['start'] <= end_time
RECURSIVE TimeRangeEntriesClosed(_, _, _)
TimeRangeEntriesClosed(s, start_time, end_time) ==
    IF s = <<>> THEN <<>>
    ELSE IF start_time <= Head(s).start /\ Head(s).start <= end_time
         THEN <<Head(s)>>
                  \o TimeRangeEntriesClosed(Tail(s), start_time, end_time)
         ELSE TimeRangeEntriesClosed(Tail(s), start_time, end_time)

\* the entries of s that satisfy start_time <= start < end_time, in list order
RECURSIVE TimeRangeEntries(_, _, _)
TimeRangeEntries(s, start_time, end_time) ==
    IF s = <<>> THEN <<>>
    ELSE IF start_time <= Head(s).start /\ Head(s).start < end_time
         THEN <<Head(s)>> \o TimeRangeEntries(Tail(s), start_time, end_time)
         ELSE TimeRangeEntries(Tail(s), start_time, end_time)

\* mutant of SplitTextByAmount: no entry in the range returns the empty list
SplitTextByAmountBare(tr, start_time, end_time) ==
    IF tr = <<>> THEN <<start_time>>
    ELSE LET time_range_entries == TimeRangeEntries(tr, start_time, end_time)
         IN  IF time_range_entries = <<>> THEN <<>>
             ELSE Accumulate(SortByStart(time_range_entries), <<>>,
                             <<start_time>>)

SplitTextByAmount(tr, start_time, end_time) ==
    IF tr = <<>> THEN <<start_time>>
    ELSE LET time_range_entries == TimeRangeEntries(tr, start_time, end_time)
         IN  IF time_range_entries = <<>> THEN <<start_time>>
             ELSE Accumulate(SortByStart(time_range_entries), <<>>,
                             <<start_time>>)

\* ------------------------------------------------------------ input sets
TextShort == <<"a">>
TextLong  == <<"c", "d", "e", "f">>

\* 0 s, 10.5 s and 20 s
EntryStarts == {0, 10 * TicksPerSec + 1, 20 * TicksPerSec}

Entry(s, t) == [start |-> s, text |-> t, duration |-> TicksPerSec]

Entries == {Entry(0, TextLong),
            Entry(10 * TicksPerSec + 1, TextShort),
            Entry(10 * TicksPerSec + 1, TextLong),
            Entry(20 * TicksPerSec, TextLong)}

\* lists of at most MaxEntries distinct entries, in any order
Corpora ==
    UNION { {s \in [1..n -> Entries] :
                \A i \in 1..n : \A j \in 1..n : i < j => s[i] # s[j]} :
            n \in 0..MaxEntries }

Configs == [interval : {10, 20},
            max_text_length : {3, 9},
            screen_change_threshold : {0, 60},
            compact_text : BOOLEAN]

Videos == [fps : {0}, total_frames : {0, MaxFrames}]
          \cup [fps : {2}, total_frames : {0, 21, 30, MaxFrames}]

Similarities == {30, 100}      \* compute_frame_similarity, in percent

SegOutcomes == {"noread", "nowrite", "ok"}

\* ------------------------------------------------------------------ state
EmptyResult == [frames |-> <<>>, frame_times |-> <<>>,
                transcript_chunks |-> <<>>]

\* no process() and no helper call is under way
NoProc == [variant |-> "none"]
NoCall == [fn |-> "none"]

\* the scheduler's own state before its first statement
SchedulerIdle ==
    /\ cap = "none"
    /\ sec = 0
    /\ frame_dict = <<>>
    /\ prev_frame = NoFrame
    /\ result = EmptyResult
    /\ files = {}
    /\ reads = <<>>
    /\ seg_reads = {}
    /\ origin = <<>>
    /\ error = FALSE

Init ==
    /\ self \in Configs
    /\ video \in Videos
    /\ transcript \in Corpora
    /\ pc = "start"
    /\ SchedulerIdle
    /\ proc = NoProc
    /\ call = NoCall

\* int(duration), duration = total_frames / fps
IntDuration == video.total_frames \div video.fps

Key(s) == s * TicksPerSec

\* d[k] = v
Put(d, k, v) == [x \in DOMAIN d \cup {k} |-> IF x = k THEN v ELSE d[x]]

\* cv2.imwrite(img_path, frame, img_params) with result ok
ImWrite(fl, path, ok) == IF ok THEN fl \cup {path} ELSE fl

\* ------------------------------------------------- extract_frames_advanced
\* mutant of OpenCapture: range(self.interval, int(duration), self.interval)
OpenCaptureFromInterval ==
    /\ pc = "start"
    /\ video.fps # 0
    /\ cap' = "open"
    /\ pc' = "loop"
    /\ sec' = self.interval
    /\ UNCHANGED <<proc, call, self, video, transcript, frame_dict, prev_frame, result,
                   files, reads, seg_reads, origin, error>>

\* cap = cv2.VideoCapture(video_path); fps, total_frames; duration
OpenCapture ==
    /\ pc = "start"
    /\ video.fps # 0
    /\ cap' = "open"
    /\ pc' = "loop"
    /\ sec' = 0
    /\ UNCHANGED <<proc, call, self, video, transcript, frame_dict, prev_frame, result,
                   files, reads, seg_reads, origin, error>>

\* total_frames / fps raises ZeroDivisionError: the except branch returns
\* [], [], [] and cap.release() is not reached
DurationError ==
    /\ pc = "start"
    /\ video.fps = 0
    /\ cap' = "open"
    /\ pc' = "done"
    /\ error' = TRUE
    /\ result' = EmptyResult
    /\ UNCHANGED <<proc, call, self, video, transcript, sec, frame_dict, prev_frame,
                   files, reads, seg_reads, origin>>

\* mutant of SkipSample: a failed read also forgets the previous frame
SkipSampleForgets ==
    /\ pc = "loop"
    /\ sec < IntDuration
    /\ reads' = Put(reads, Key(sec), FALSE)
    /\ prev_frame' = NoFrame
    /\ sec' = sec + self.interval
    /\ UNCHANGED <<proc, call, self, video, transcript, pc, cap, frame_dict,
                   result, files, seg_reads, origin, error>>

\* mutant of SkipSample: a failed read raises instead of "continue"
SkipSampleAborts ==
    /\ pc = "loop"
    /\ sec < IntDuration
    /\ reads' = Put(reads, Key(sec), FALSE)
    /\ pc' = "done"
    /\ error' = TRUE
    /\ result' = EmptyResult
    /\ UNCHANGED <<proc, call, self, video, transcript, cap, sec, frame_dict, prev_frame,
                   files, seg_reads, origin>>

\* ret is False: continue
SkipSample ==
    /\ pc = "loop"
    /\ sec < IntDuration
    /\ reads' = Put(reads, Key(sec), FALSE)
    /\ sec' = sec + self.interval
    /\ UNCHANGED <<proc, call, self, video, transcript, pc, cap, frame_dict, prev_frame,
                   result, files, seg_reads, origin, error>>

\* mutant of ChangeBranch: the query is called with its default window_size=30
ChangeBranchDefaultWindow(st, key, similarity, ok) ==
    IF prev_frame # NoFrame /\ similarity < self.screen_change_threshold
    THEN LET text == GetTranscriptAtTime(transcript, key, 30 * TicksPerSec)
         IN  IF key \notin DOMAIN st.fd
             THEN [fd |-> Put(st.fd, key, [img |-> key, text |-> text]),
                   fl |-> ImWrite(st.fl, key, ok),
                   og |-> Put(st.og, key, "change"),
                   sr |-> st.sr]
             ELSE [st EXCEPT !.fl = ImWrite(st.fl, key, ok)]
    ELSE st

\* the change-triggered branch, lines 463-482
ChangeBranch(st, key, similarity, ok) ==
    IF prev_frame # NoFrame /\ similarity < self.screen_change_threshold
    THEN LET text == GetTranscriptAtTime(transcript, key,
                                         WindowSize * TicksPerSec)
         IN  IF key \notin DOMAIN st.fd
             THEN [fd |-> Put(st.fd, key, [img |-> key, text |-> text]),
                   fl |-> ImWrite(st.fl, key, ok),
                   og |-> Put(st.og, key, "change"),
                   sr |-> st.sr]
             ELSE [st EXCEPT !.fl = ImWrite(st.fl, key, ok)]
    ELSE st

\* mutant of PeriodicBranch: "if sec in frame_dict"
PeriodicBranchInverted(st, key, ok) ==
    IF key \in DOMAIN st.fd
    THEN LET text == GetTranscriptAtTime(transcript, key,
                                         WindowSize * TicksPerSec)
         IN  [fd |-> Put(st.fd, key, [img |-> key, text |-> text]),
              fl |-> ImWrite(st.fl, key, ok),
              og |-> Put(st.og, key, "periodic"),
              sr |-> st.sr]
    ELSE st

\* the periodic branch, lines 486-498
PeriodicBranch(st, key, ok) ==
    IF key \notin DOMAIN st.fd
    THEN LET text == GetTranscriptAtTime(transcript, key,
                                         WindowSize * TicksPerSec)
         IN  [fd |-> Put(st.fd, key, [img |-> key, text |-> text]),
              fl |-> ImWrite(st.fl, key, ok),
              og |-> Put(st.og, key, "periodic"),
              sr |-> st.sr]
    ELSE st

\* "for seg_time in segments[1:]", lines 511-534; outs[i] is what the
\* environment answers for the i-th split point
RECURSIVE SegmentLoop(_, _, _, _)
SegmentLoop(st, key, segs, outs) ==
    IF segs = <<>> THEN st
    ELSE LET seg_time == Head(segs)
             out      == Head(outs)
         IN  IF seg_time \in DOMAIN st.fd
             THEN SegmentLoop(st, key, Tail(segs), Tail(outs))
             ELSE IF out = "noread"
             THEN SegmentLoop(
                      [st EXCEPT !.sr = @ \cup
                           {[t |-> key, s |-> seg_time, ret |-> FALSE]}],
                      key, Tail(segs), Tail(outs))
             ELSE LET seg_text == GetTranscriptAtTime(transcript, seg_time,
                                      WindowSize * TicksPerSec)
                  IN  SegmentLoop(
                          [fd |-> Put(st.fd, seg_time,
                                      [img |-> seg_time, text |-> seg_text]),
                           fl |-> ImWrite(st.fl, seg_time, out = "ok"),
                           og |-> Put(st.og, seg_time, "split"),
                           sr |-> st.sr \cup
                               {[t |-> key, s |-> seg_time, ret |-> TRUE]}],
                          key, Tail(segs), Tail(outs))

\* mutant of Segments: the range handed to the segmenter is two intervals long
SegmentsTwoIntervals(fd, key) ==
    LET current_text == IF key \in DOMAIN fd THEN fd[key].text ELSE <<>>
    IN  IF /\ transcript # <<>>
           /\ current_text # <<>>
           /\ Len(current_text) > self.max_text_length
        THEN Tail(SplitTextByAmount(transcript, key,
                                    key + 2 * self.interval * TicksPerSec))
        ELSE <<>>

\* mutant of Segments: "for seg_time in segments[2:]"
SegmentsSkipTwo(fd, key) ==
    LET current_text == IF key \in DOMAIN fd THEN fd[key].text ELSE <<>>
    IN  IF /\ transcript # <<>>
           /\ current_text # <<>>
           /\ Len(current_text) > self.max_text_length
        THEN LET segments == SplitTextByAmount(transcript, key,
                                 key + self.interval * TicksPerSec)
             IN  SubSeq(segments, 3, Len(segments))
        ELSE <<>>

\* mutant of Segments: "len(current_text) >= self.max_text_length"
SegmentsAtLeast(fd, key) ==
    LET current_text == IF key \in DOMAIN fd THEN fd[key].text ELSE <<>>
    IN  IF /\ transcript # <<>>
           /\ current_text # <<>>
           /\ Len(current_text) >= self.max_text_length
        THEN Tail(SplitTextByAmount(transcript, key,
                                    key + self.interval * TicksPerSec))
        ELSE <<>>

\* the split points the volume branch walks for sample key, lines 501-511
Segments(fd, key) ==
    LET current_text == IF key \in DOMAIN fd THEN fd[key].text ELSE <<>>
    IN  IF /\ transcript # <<>>
           /\ current_text # <<>>
           /\ Len(current_text) > self.max_text_length
        THEN Tail(SplitTextByAmount(transcript, key,
                                    key + self.interval * TicksPerSec))
        ELSE <<>>

\* the last split point of segs whose frame was read, else the sample key
RECURSIVE LastFrameRead(_, _, _)
LastFrameRead(key, segs, outs) ==
    IF segs = <<>> THEN key
    ELSE IF outs[Len(segs)] # "noread" THEN segs[Len(segs)]
         ELSE LastFrameRead(key, SubSeq(segs, 1, Len(segs) - 1), outs)

\* mutant of SampleStep: the split loop reads into "frame", so the frame
\* kept at the end of the step is the last one read
SampleStepKeepsLastRead ==
    /\ pc = "loop"
    /\ sec < IntDuration
    /\ \E similarity \in Similarities, ok \in BOOLEAN :
         LET key == Key(sec)
             st0 == [fd |-> frame_dict, fl |-> files, og |-> origin,
                     sr |-> seg_reads]
             st1 == ChangeBranch(st0, key, similarity, ok)
             st2 == PeriodicBranch(st1, key, ok)
             segs == Segments(st2.fd, key)
         IN  \E outs \in [1..Len(segs) -> SegOutcomes] :
               LET st3 == SegmentLoop(st2, key, segs, outs)
               IN  /\ frame_dict' = st3.fd
                   /\ files' = st3.fl
                   /\ origin' = st3.og
                   /\ seg_reads' = st3.sr
                   /\ reads' = Put(reads, key, TRUE)
                   /\ prev_frame' = LastFrameRead(key, segs, outs)
    /\ sec' = sec + self.interval
    /\ UNCHANGED <<proc, call, self, video, transcript, pc, cap, result, error>>

\* one iteration of the sampling loop whose cap.read() succeeded
SampleStep ==
    /\ pc = "loop"
    /\ sec < IntDuration
    /\ \E similarity \in Similarities, ok \in BOOLEAN :
         LET key == Key(sec)
             st0 == [fd |-> frame_dict, fl |-> files, og |-> origin,
                     sr |-> seg_reads]
             st1 == ChangeBranch(st0, key, similarity, ok)
             st2 == PeriodicBranch(st1, key, ok)
             segs == Segments(st2.fd, key)
         IN  \E outs \in [1..Len(segs) -> SegOutcomes] :
               LET st3 == SegmentLoop(st2, key, segs, outs)
               IN  /\ frame_dict' = st3.fd
                   /\ files' = st3.fl
                   /\ origin' = st3.og
                   /\ seg_reads' = st3.sr
                   /\ reads' = Put(reads, key, TRUE)
                   /\ prev_frame' = key
    /\ sec' = sec + self.interval
    /\ UNCHANGED <<proc, call, self, video, transcript, pc, cap, result, error>>

\* frames, frame_times, transcript_chunks from the sorted keys
Collect(fd) ==
    LET sorted_times == SortedKeys(DOMAIN fd)
    IN  [frames |-> [i \in 1..Len(sorted_times) |-> fd[sorted_times[i]].img],
         frame_times |-> sorted_times,
         transcript_chunks |->
             [i \in 1..Len(sorted_times) |-> fd[sorted_times[i]].text]]

\* the range is exhausted: cap.release(), sort, return
Finish ==
    /\ pc = "loop"
    /\ sec >= IntDuration
    /\ cap' = "released"
    /\ result' = Collect(frame_dict)
    /\ pc' = "done"
    /\ UNCHANGED <<proc, call, self, video, transcript, sec, frame_dict, prev_frame,
                   files, reads, seg_reads, origin, error>>

Next ==
    \/ OpenCapture
    \/ DurationError
    \/ SkipSample
    \/ SampleStep
    \/ Finish

Spec == Init /\ [][Next]_vars

\* ------------------------------------------- helper calls on their own
\* Each helper is also run alone: Init draws its receiver and arguments, one
\* action applies it and records the arguments and the returned value.

\* lists of at most MaxEntries entries of E, repetitions allowed
ListsOf(E) == UNION { [1..n -> E] : n \in 0..MaxEntries }

RunsOf(E) == UNION { [1..n -> E] : n \in 0..MaxRun }

\* texts of caption entries: empty, blank, padded, plain
HelperTexts == {<<>>, <<"a">>, <<"b", Space>>}

\* entry starts 0 s, half a tick later, and 2 s plus a tick
HelperStarts == {0, 1, 2 * TicksPerSec + 1}

HelperConfigs == [interval : {10},
                  max_text_length : {1, 3, 5},
                  screen_change_threshold : {60},
                  compact_text : BOOLEAN]

HelperIdle ==
    /\ video = [fps |-> 0, total_frames |-> 0]
    /\ pc = "helper"
    /\ SchedulerIdle
    /\ proc = NoProc
    /\ call = [fn |-> "idle"]

SchedulerUnchanged ==
    UNCHANGED <<self, video, transcript, pc, cap, sec, frame_dict,
                prev_frame, result, files, reads, seg_reads, origin, error,
                proc>>

\* ---- _split_text_by_amount alone
SegmenterEntries == [start : HelperStarts, text : HelperTexts, duration : {0}]

\* [start_time, end_time) in ticks
SegmenterRanges == {<<0, 1>>, <<0, 2 * TicksPerSec>>, <<1, 3 * TicksPerSec>>,
                    <<3 * TicksPerSec, 4 * TicksPerSec>>}

SegmenterInit ==
    /\ self \in {c \in HelperConfigs : c.compact_text}
    /\ transcript \in RunsOf(SegmenterEntries)
    /\ HelperIdle

CallSplitTextByAmount ==
    /\ pc = "helper"
    /\ call.fn = "idle"
    /\ \E r \in SegmenterRanges :
          call' = [fn |-> "_split_text_by_amount",
                   start_time |-> r[1], end_time |-> r[2],
                   ret |-> SplitTextByAmount(transcript, r[1], r[2])]
    /\ SchedulerUnchanged

SegmenterNext == CallSplitTextByAmount

SegmenterSpec == SegmenterInit /\ [][SegmenterNext]_vars

\* ---- _get_transcript_at_time alone, both extractors
QueryEntries == [start : HelperStarts,
                 text : {<<Space>>, <<"a">>, <<"b", Newline, "c", Space>>},
                 duration : {0, TicksPerSec}]

\* <<time_sec, window_size>> in ticks; 30 s is the default window_size
QueryArgs == {0, 2 * TicksPerSec} \X {TicksPerSec, 30 * TicksPerSec}

QueryInit ==
    /\ self \in {c \in HelperConfigs : c.max_text_length = 3}
    /\ transcript \in ListsOf(QueryEntries)
    /\ HelperIdle

CallGetTranscriptAtTime ==
    /\ pc = "helper"
    /\ call.fn = "idle"
    /\ \E a \in QueryArgs :
          call' = [fn |-> "_get_transcript_at_time",
                   time_sec |-> a[1], window_size |-> a[2],
                   ret |-> GetTranscriptAtTime(transcript, a[1], a[2])]
    /\ SchedulerUnchanged

CallBasicGetTranscriptAtTime ==
    /\ pc = "helper"
    /\ call.fn = "idle"
    /\ \E a \in QueryArgs :
          call' = [fn |-> "basic._get_transcript_at_time",
                   time_sec |-> a[1], window_size |-> a[2],
                   ret |-> BasicGetTranscriptAtTime(transcript, a[1], a[2])]
    /\ SchedulerUnchanged

QueryNext == CallGetTranscriptAtTime \/ CallBasicGetTranscriptAtTime

QuerySpec == QueryInit /\ [][QueryNext]_vars

\* ---- WhisperTranscriptionProvider.transcribe_audio
\* The audio_segments list holds the numbers i of the segment files
\* "<base>_segment_<i>.mp3"; the unsplit file counts as segment 0.
\* The sources list is not in the code: it remembers, for each entry of
\* all_transcripts, the segment i and the start the API gave.
LocalStarts == {0, 1}

TranscriberInit ==
    /\ self \in {c \in HelperConfigs :
                    c.max_text_length = 3 /\ c.compact_text}
    /\ transcript = <<>>
    /\ video = [fps |-> 0, total_frames |-> 0]
    /\ pc = "helper"
    /\ SchedulerIdle
    /\ proc = NoProc
    /\ call = [fn |-> "transcribe_audio", stage |-> "begin",
               audio_segments |-> <<>>, pos |-> 1,
               current_start_time |-> 0,
               all_transcripts |-> <<>>, sources |-> <<>>]

\* the files of _split_audio: segment i is in the list when its ffmpeg run
\* succeeded
RECURSIVE SegmentFiles(_, _, _)
SegmentFiles(i, num_segments, split_ok) ==
    IF i >= num_segments THEN <<>>
    ELSE (IF split_ok[i] THEN <<i>> ELSE <<>>)
             \o SegmentFiles(i + 1, num_segments, split_ok)

\* file_size > 24: _split_audio, which returns the file itself when ffprobe
\* fails; else the file itself
SplitAudio ==
    /\ pc = "helper"
    /\ call.fn = "transcribe_audio"
    /\ call.stage = "begin"
    /\ \E large \in BOOLEAN, probe_ok \in BOOLEAN,
          num_segments \in 1..MaxSegments :
          \E split_ok \in [0..(num_segments - 1) -> BOOLEAN] :
             call' = [call EXCEPT
                         !.stage = "loop",
                         !.audio_segments =
                             IF large /\ probe_ok
                             THEN SegmentFiles(0, num_segments, split_ok)
                             ELSE <<0>>]
    /\ SchedulerUnchanged

\* one turn of "for segment_path in audio_segments": a status other than
\* 200 continues, an exception is caught, and only a turn that got its
\* result moves current_start_time
TranscribeSegment ==
    /\ pc = "helper"
    /\ call.fn = "transcribe_audio"
    /\ call.stage = "loop"
    /\ call.pos <= Len(call.audio_segments)
    /\ \E outcome \in {"status", "exception", "ok"}, start \in LocalStarts :
          IF outcome = "ok"
          THEN call' = [call EXCEPT
                   !.all_transcripts =
                       Append(@, [start |-> call.current_start_time + start,
                                  text |-> <<"a">>,
                                  duration |-> TicksPerSec]),
                   !.sources =
                       Append(@, [segment |-> call.audio_segments[call.pos],
                                  start |-> start]),
                   !.current_start_time =
                       IF call.pos - 1 < Len(call.audio_segments) - 1
                       THEN @ + SegmentLength * TicksPerSec ELSE @,
                   !.pos = @ + 1]
          ELSE call' = [call EXCEPT !.pos = @ + 1]
    /\ SchedulerUnchanged

\* return all_transcripts
ReturnTranscripts ==
    /\ pc = "helper"
    /\ call.fn = "transcribe_audio"
    /\ call.stage = "loop"
    /\ call.pos > Len(call.audio_segments)
    /\ call' = [call EXCEPT !.stage = "returned"]
    /\ SchedulerUnchanged

TranscriberNext == SplitAudio \/ TranscribeSegment \/ ReturnTranscripts

TranscriberSpec == TranscriberInit /\ [][TranscriberNext]_vars

\* ---- TranscriptQualitySelector alone
TenChars == <<"a", "b", "c", "d", "e", "f", "g", "h", "i", "j">>

SelectorTexts == {<<>>, <<"a">>, <<"a", Space, "b", "c">>, TenChars}

SelectorEntries == {Entry(0, text) : text \in SelectorTexts}

\* short corpora of every shape, and four long ones: 50, 100 and 101
\* entries, and one entry of more than 100 characters
SelectorCorpora ==
    ListsOf(SelectorEntries)
        \cup {[i \in 1..50 |-> Entry(0, <<"a">>)],
              [i \in 1..100 |-> Entry(0, TenChars)],
              [i \in 1..101 |-> Entry(0, TenChars)],
              <<Entry(0, [i \in 1..101 |-> "a"])>>}

SelectorInit ==
    /\ self \in {c \in HelperConfigs :
                    c.max_text_length = 3 /\ c.compact_text}
    /\ transcript = <<>>
    /\ video = [fps |-> 0, total_frames |-> 0]
    /\ pc = "helper"
    /\ SchedulerIdle
    /\ proc = NoProc
    /\ call \in [fn : {"idle"},
                 youtube_transcript : SelectorCorpora,
                 whisper_transcript : SelectorCorpora,
                 force_whisper : BOOLEAN]

CallEvaluateTranscriptQuality ==
    /\ pc = "helper"
    /\ call.fn = "idle"
    /\ \E tr \in {call.youtube_transcript, call.whisper_transcript} :
          call' = [fn |-> "evaluate_transcript_quality",
                   transcript |-> tr,
                   ret |-> EvaluateTranscriptQuality(tr)]
    /\ SchedulerUnchanged

CallSelectBestTranscript ==
    /\ pc = "helper"
    /\ call.fn = "idle"
    /\ call' = [fn |-> "select_best_transcript",
                youtube_transcript |-> call.youtube_transcript,
                whisper_transcript |-> call.whisper_transcript,
                force_whisper |-> call.force_whisper,
                ret |-> SelectBestTranscript(call.youtube_transcript,
                                             call.whisper_transcript,
                                             call.force_whisper)]
    /\ SchedulerUnchanged

\* download_transcript, lines 310-321, with the two corpora as they came
CallDownloadTranscript ==
    /\ pc = "helper"
    /\ call.fn = "idle"
    /\ call' = [fn |-> "download_transcript",
                youtube_transcript |-> call.youtube_transcript,
                whisper_transcript |-> call.whisper_transcript,
                force_whisper |-> call.force_whisper,
                ret |-> DownloadTranscript(
                            [ok |-> TRUE, data |-> call.youtube_transcript],
                            [use |-> TRUE, ok |-> TRUE,
                             data |-> call.whisper_transcript],
                            call.force_whisper)]
    /\ SchedulerUnchanged

SelectorNext ==
    \/ CallEvaluateTranscriptQuality
    \/ CallSelectBestTranscript
    \/ CallDownloadTranscript

SelectorSpec == SelectorInit /\ [][SelectorNext]_vars

\* ------------------------------------------------------------ process()
\* What the outside world answers during one run: whether the video file is
\* there after the download, what the caption fetch and the speech-to-text
\* call give (ok = FALSE: the call raised).
ProcessCorpora == {<<>>, <<Entry(0, TextLong)>>,
                   <<Entry(10 * TicksPerSec + 1, TextLong)>>}

FetchOutcomes ==
    {[ok |-> FALSE, data |-> <<>>]}
        \cup {[ok |-> TRUE, data |-> c] : c \in ProcessCorpora}

WhisperOutcomes ==
    {[use |-> FALSE, ok |-> FALSE, data |-> <<>>],
     [use |-> TRUE, ok |-> FALSE, data |-> <<>>],
     [use |-> TRUE, ok |-> TRUE, data |-> <<Entry(0, TextShort)>>]}

ProcessConfigs == {c \in Configs : /\ c.interval = 10
                                   /\ c.screen_change_threshold = 60
                                   /\ c.compact_text}

ProcessInit ==
    /\ self \in ProcessConfigs
    /\ video \in Videos
    /\ transcript = <<>>
    /\ pc = "process"
    /\ SchedulerIdle
    /\ call = NoCall
    /\ proc \in {p \in [variant : {"enhanced", "basic"},
                        stage : {"begin"},
                        video_file : BOOLEAN,
                        youtube : FetchOutcomes,
                        whisper : WhisperOutcomes,
                        force_whisper : BOOLEAN,
                        extracted : {FALSE},
                        rendered : {FALSE},
                        ret : {"pending"}] :
                    p.variant = "basic" =>
                        (~p.whisper.use /\ ~p.force_whisper)}

ExtractorUnchanged ==
    UNCHANGED <<call, self, video, sec, frame_dict, prev_frame, files,
                reads, seg_reads, origin>>

\* extract_frames_advanced: every download attempt left no file, the raise
\* of line 432 goes to the except branch
EnhancedDownloadFails ==
    /\ pc = "process"
    /\ proc.variant = "enhanced"
    /\ proc.stage = "begin"
    /\ ~proc.video_file
    /\ proc' = [proc EXCEPT !.stage = "extract", !.extracted = TRUE]
    /\ result' = EmptyResult
    /\ error' = TRUE
    /\ pc' = "done"
    /\ UNCHANGED <<transcript, cap>>
    /\ ExtractorUnchanged

\* extract_frames_advanced: the video file is there, the corpus is fetched
\* and the scheduler starts
EnhancedDownloadTranscript ==
    /\ pc = "process"
    /\ proc.variant = "enhanced"
    /\ proc.stage = "begin"
    /\ proc.video_file
    /\ proc' = [proc EXCEPT !.stage = "extract", !.extracted = TRUE]
    /\ transcript' = DownloadTranscript(proc.youtube, proc.whisper,
                                        proc.force_whisper)
    /\ pc' = "start"
    /\ UNCHANGED <<cap, result, error>>
    /\ ExtractorUnchanged

\* mutant of EnhancedProcessReturn: no "if not frames_data[0]"
EnhancedProcessReturnUnchecked ==
    /\ pc = "done"
    /\ proc.variant = "enhanced"
    /\ proc.stage = "extract"
    /\ \E ok \in BOOLEAN :
          proc' = [proc EXCEPT !.stage = "returned", !.rendered = TRUE,
                               !.ret = IF ok THEN "path" ELSE "None"]
    /\ UNCHANGED <<transcript, pc, cap, result, error>>
    /\ ExtractorUnchanged

\* process(), lines 921-939: None without frames, else create_google_slides,
\* which returns the path, or None when it raised
EnhancedProcessReturn ==
    /\ pc = "done"
    /\ proc.variant = "enhanced"
    /\ proc.stage = "extract"
    /\ IF result.frames = <<>>
       THEN proc' = [proc EXCEPT !.stage = "returned", !.ret = "None"]
       ELSE \E ok \in BOOLEAN :
               proc' = [proc EXCEPT !.stage = "returned", !.rendered = TRUE,
                                    !.ret = IF ok THEN "path" ELSE "None"]
    /\ UNCHANGED <<transcript, pc, cap, result, error>>
    /\ ExtractorUnchanged

\* ---- YouTubeTutorialExtractor (basic): process() and extract_frames
\* process(), lines 515-519: download_transcript gives [] when the fetch
\* raised; an empty corpus ends the run
BasicDownloadTranscript ==
    /\ pc = "process"
    /\ proc.variant = "basic"
    /\ proc.stage = "begin"
    /\ transcript' = IF proc.youtube.ok THEN proc.youtube.data ELSE <<>>
    /\ IF transcript' = <<>>
       THEN /\ proc' = [proc EXCEPT !.stage = "returned", !.ret = "None"]
            /\ pc' = pc
       ELSE /\ proc' = [proc EXCEPT !.stage = "extract", !.extracted = TRUE]
            /\ pc' = "basic_start"
    /\ UNCHANGED <<cap, result, error>>
    /\ ExtractorUnchanged

\* extract_frames: no video file, the raise goes to the except branch
BasicDownloadFails ==
    /\ pc = "basic_start"
    /\ ~proc.video_file
    /\ result' = EmptyResult
    /\ error' = TRUE
    /\ pc' = "basic_done"
    /\ UNCHANGED <<proc, transcript, cap>>
    /\ ExtractorUnchanged

\* extract_frames: total_frames / fps raises ZeroDivisionError
BasicDurationError ==
    /\ pc = "basic_start"
    /\ proc.video_file
    /\ video.fps = 0
    /\ cap' = "open"
    /\ result' = EmptyResult
    /\ error' = TRUE
    /\ pc' = "basic_done"
    /\ UNCHANGED <<proc, transcript>>
    /\ ExtractorUnchanged

BasicOpenCapture ==
    /\ pc = "basic_start"
    /\ proc.video_file
    /\ video.fps # 0
    /\ cap' = "open"
    /\ sec' = 0
    /\ pc' = "basic_loop"
    /\ UNCHANGED <<proc, call, self, video, transcript, frame_dict,
                   prev_frame, result, files, reads, seg_reads, origin,
                   error>>

\* mutant of BasicSampleStep: no "if ret"
BasicSampleStepAppendsAll ==
    /\ pc = "basic_loop"
    /\ sec < IntDuration
    /\ \E ret \in BOOLEAN, ok \in BOOLEAN :
          /\ reads' = Put(reads, Key(sec), ret)
          /\ files' = ImWrite(files, Key(sec), ok)
          /\ result' = [result EXCEPT
                           !.frames = Append(@, Key(sec)),
                           !.frame_times = Append(@, Key(sec))]
    /\ sec' = sec + self.interval
    /\ UNCHANGED <<proc, call, self, video, transcript, pc, cap, frame_dict,
                   prev_frame, seg_reads, origin, error>>

\* one turn of "for sec in range(0, int(duration), self.interval)": a frame
\* that was read is written and appended (the result has no
\* transcript_chunks here, it stays empty)
BasicSampleStep ==
    /\ pc = "basic_loop"
    /\ sec < IntDuration
    /\ \E ret \in BOOLEAN, ok \in BOOLEAN :
          /\ reads' = Put(reads, Key(sec), ret)
          /\ IF ret
             THEN /\ files' = ImWrite(files, Key(sec), ok)
                  /\ result' = [result EXCEPT
                                   !.frames = Append(@, Key(sec)),
                                   !.frame_times = Append(@, Key(sec))]
             ELSE UNCHANGED <<files, result>>
    /\ sec' = sec + self.interval
    /\ UNCHANGED <<proc, call, self, video, transcript, pc, cap, frame_dict,
                   prev_frame, seg_reads, origin, error>>

\* cap.release(); return frames, frame_times
BasicFinish ==
    /\ pc = "basic_loop"
    /\ sec >= IntDuration
    /\ cap' = "released"
    /\ pc' = "basic_done"
    /\ UNCHANGED <<proc, call, self, video, transcript, sec, frame_dict,
                   prev_frame, result, files, reads, seg_reads, origin,
                   error>>

\* process(), lines 522-543: None without frames, else create_pptx or
\* create_google_slides, which return the path, or None when they raised
BasicProcessReturn ==
    /\ pc = "basic_done"
    /\ proc.stage = "extract"
    /\ IF result.frames = <<>>
       THEN proc' = [proc EXCEPT !.stage = "returned", !.ret = "None"]
       ELSE \E ok \in BOOLEAN :
               proc' = [proc EXCEPT !.stage = "returned", !.rendered = TRUE,
                                    !.ret = IF ok THEN "path" ELSE "None"]
    /\ UNCHANGED <<transcript, pc, cap, result, error>>
    /\ ExtractorUnchanged

ProcessNext ==
    \/ EnhancedDownloadFails
    \/ EnhancedDownloadTranscript
    \/ OpenCapture
    \/ DurationError
    \/ SkipSample
    \/ SampleStep
    \/ Finish
    \/ EnhancedProcessReturn
    \/ BasicDownloadTranscript
    \/ BasicDownloadFails
    \/ BasicDurationError
    \/ BasicOpenCapture
    \/ BasicSampleStep
    \/ BasicFinish
    \/ BasicProcessReturn

ProcessSpec == ProcessInit /\ [][ProcessNext]_vars

\* ------------------------------------------------------- auxiliary notions
Range(s) == {s[i] : i \in DOMAIN s}

Times == result.frame_times

\* the text the scheduler binds to a key
WindowText(k) == GetTranscriptAtTime(transcript, k, WindowSize * TicksPerSec)

\* the chunk returned for key k
ChunkOf(k) ==
    LET i == CHOOSE i \in 1..Len(Times) : Times[i] = k
    IN  result.transcript_chunks[i]

Returned == pc = "done" /\ ~error

ReadOk == {k \in DOMAIN reads : reads[k]}

SplitOk == {r.s : r \in {x \in seg_reads : x.ret}}

\* duration < interval, with duration = total_frames / fps
BelowOneInterval ==
    video.fps # 0 /\ video.total_frames < self.interval * video.fps

\* ------------------------------------------------------------------ claims

\* C1: the returned frame_times sequence is strictly increasing, so it holds
\* no key twice, for every duration, interval, corpus, pattern of read
\* results and similarity values.
C1_StrictlyIncreasing ==
    pc = "done" =>
        \A i \in 1..Len(Times) : \A j \in 1..Len(Times) :
            i < j => Times[i] < Times[j]

C1_Witness ==
    /\ pc = "done"
    /\ Len(Times) >= 3
    /\ \E k \in DOMAIN origin : origin[k] = "split"
    /\ \E k \in DOMAIN origin : origin[k] = "change"

\* C2: every sample time whose read succeeded has exactly one record in the
\* output, made by the change-triggered or by the periodic branch.
C2_OneRecordPerSample ==
    pc = "done" =>
        \A k \in ReadOk :
            /\ Cardinality({i \in 1..Len(Times) : Times[i] = k}) = 1
            /\ origin[k] \in {"change", "periodic"}

C2_Witness ==
    /\ pc = "done"
    /\ \E k \in ReadOk : origin[k] = "change"
    /\ \E k \in ReadOk : origin[k] = "periodic"
    /\ \E k \in DOMAIN reads : ~reads[k]

\* C3: once the frame source is open, every exit of the run has released it.
C3_ReleasedOnEveryExit ==
    (pc = "done" /\ cap # "none") => cap = "released"

\* C4: every record of the output refers to an image whose write succeeded.
C4_RecordsArePersisted ==
    pc = "done" => \A i \in 1..Len(Times) : result.frames[i] \in files

\* the sample times of "range(0, int(duration), self.interval)", as keys
SampleKeys ==
    {Key(x) : x \in {y \in 0..(IntDuration - 1) : y % self.interval = 0}}

\* the split points the segmenter returns after the interval's start
SplitPoints(t) ==
    Range(Tail(SplitTextByAmount(transcript, t,
                                 t + self.interval * TicksPerSec)))

\* C5: a failed read or a failed image write at one sample time or split
\* point never aborts the run: the except branch is not taken after one, the
\* loop is never stuck and visits every sample time, and the output holds the
\* record of every sample time whose read and write succeeded.
C5_FailuresAreSkipped ==
    /\ error => (reads = <<>> /\ seg_reads = {})
    /\ pc = "loop" => (~error /\ ENABLED (SkipSample \/ Finish))
    /\ Returned =>
          /\ DOMAIN reads = SampleKeys
          /\ \A k \in ReadOk \cap files : k \in Range(Times)

C5_Witness ==
    /\ Returned
    /\ \E k \in DOMAIN reads : ~reads[k]
    /\ \E r \in seg_reads : ~r.ret
    /\ \E k \in ReadOk : k \notin files
    /\ \E k \in ReadOk \cap files : k \in Range(Times)

\* C6 as stated: a source shorter than one interval yields at most one
\* record, keyed 0, for every corpus and every max_text_length.
C6_AtMostOneRecord ==
    (pc = "done" /\ BelowOneInterval) =>
        /\ Len(Times) <= 1
        /\ \A i \in 1..Len(Times) : Times[i] = 0

\* C6 amended: a source shorter than one interval yields at most one sample
\* record, keyed 0; every other record is a volume-split record keyed at the
\* start s of a caption entry with 0 < s < interval, and there is one only
\* when the text bound to 0 is longer than max_text_length.
C6_OneSampleRecord ==
    (pc = "done" /\ BelowOneInterval) =>
        /\ \A k \in Range(Times) :
              \/ k = 0
              \/ /\ origin[k] = "split"
                 /\ 0 < k /\ k < self.interval * TicksPerSec
                 /\ \E i \in 1..Len(transcript) : transcript[i].start = k
        /\ Len(Times) > 1 => Len(WindowText(0)) > self.max_text_length

C6_Witness ==
    /\ pc = "done"
    /\ BelowOneInterval
    /\ Len(Times) = 2
    /\ Times[1] = 0

\* C7: with an empty corpus and every read succeeding, the output keys are
\* exactly the sample times, every text is empty and the volume branch
\* inserts nothing.
C7_EmptyCorpus ==
    (Returned /\ transcript = <<>> /\ \A k \in DOMAIN reads : reads[k]) =>
        /\ Range(Times) = SampleKeys
        /\ Len(Times) = Cardinality(SampleKeys)
        /\ \A i \in 1..Len(Times) : result.transcript_chunks[i] = <<>>
        /\ \A k \in DOMAIN origin : origin[k] # "split"

C7_Witness ==
    /\ Returned
    /\ transcript = <<>>
    /\ \A k \in DOMAIN reads : reads[k]
    /\ Len(Times) = 3

\* C8: a visual change adds no record beyond the one of its sample time: the
\* keys and the text of each key are a function of the corpus, the interval,
\* max_text_length and the read results alone, whatever the threshold and
\* the similarity values were.
C8_ChangeAddsNoRecord ==
    /\ \A k \in DOMAIN origin : origin[k] = "change" => k \in ReadOk
    /\ \A r \in seg_reads :
          /\ r.t \in ReadOk
          /\ Len(WindowText(r.t)) > self.max_text_length
          /\ r.s \in SplitPoints(r.t)
    /\ Returned =>
          /\ Range(Times) = ReadOk \cup SplitOk
          /\ \A i \in 1..Len(Times) :
                result.transcript_chunks[i] = WindowText(Times[i])

C8_Witness ==
    /\ Returned
    /\ Len(Times) = 3
    /\ \E k \in DOMAIN origin : origin[k] = "change" /\ WindowText(k) # <<>>
    /\ \E k \in DOMAIN origin : origin[k] = "periodic" /\ k # 0

\* C9: when the text bound to sample time t is longer than max_text_length
\* and the segmenter over [t, t + interval) returns a split point s other
\* than t whose read succeeds, the output holds a record keyed s with the
\* window text at s, beside the record keyed t.
C9_SplitRecordInserted ==
    Returned =>
        \A t \in ReadOk :
            Len(WindowText(t)) > self.max_text_length =>
                /\ t \in Range(Times)
                /\ \A s \in SplitPoints(t) :
                      s # t =>
                          \/ [t |-> t, s |-> s, ret |-> FALSE] \in seg_reads
                          \/ /\ s \in Range(Times)
                             /\ ChunkOf(s) = WindowText(s)

C9_Witness ==
    /\ Returned
    /\ Len(transcript) = 1
    /\ Times = <<0, 10 * TicksPerSec + 1>>
    /\ origin[10 * TicksPerSec + 1] = "split"
    /\ ChunkOf(10 * TicksPerSec + 1) = TextLong

\* C10: when max_text_length is at least the length of every window text of
\* the run, no volume-split record is inserted and the output keys are
\* exactly the sample times whose read succeeded.
C10_LargeLengthDisablesSplit ==
    (Returned /\ \A k \in ReadOk : Len(WindowText(k)) <= self.max_text_length)
        => /\ \A k \in DOMAIN origin : origin[k] # "split"
           /\ Range(Times) = ReadOk

C10_Witness ==
    /\ Returned
    /\ \A k \in ReadOk : Len(WindowText(k)) <= self.max_text_length
    /\ \E k \in ReadOk : Len(WindowText(k)) = self.max_text_length
    /\ \E k \in ReadOk : SplitPoints(k) \ {k} # {}
    /\ Len(Times) >= 2

\* C11: _split_text_by_amount returns a non-empty list whose first element
\* is the given start_time, for every corpus (an empty one and one without
\* an entry in the range included) and every max_text_length.
C11_StartsWithStart ==
    call.fn = "_split_text_by_amount" =>
        /\ Len(call.ret) >= 1
        /\ call.ret[1] = call.start_time

C11_Witness ==
    /\ call.fn = "_split_text_by_amount"
    /\ transcript # <<>>
    /\ TimeRangeEntries(transcript, call.start_time, call.end_time) = <<>>
    /\ call.ret = <<call.start_time>>
    /\ call.start_time # 0

\* the lists that hold the same entries as tr in another order
Reorderings(tr) ==
    {[i \in 1..Len(tr) |-> tr[f[i]]] : f \in Permutations(1..Len(tr))}

\* C12: the caption window query returns the same string for every ordering
\* of the same corpus entries, entries of equal start included, in both
\* extractors.
C12_OrderIndependent ==
    /\ call.fn = "_get_transcript_at_time" =>
          \A tr \in Reorderings(transcript) :
              GetTranscriptAtTime(tr, call.time_sec, call.window_size)
                  = call.ret
    /\ call.fn = "basic._get_transcript_at_time" =>
          \A tr \in Reorderings(transcript) :
              BasicGetTranscriptAtTime(tr, call.time_sec, call.window_size)
                  = call.ret

\* C13: the quality of an empty corpus is 0 and that of a non-empty corpus is
\* strictly positive; a selection that is not forced, between an empty and a
\* non-empty corpus, returns the non-empty one, whichever side is empty.
C13_NonEmptyBeatsEmpty ==
    /\ call.fn = "evaluate_transcript_quality" =>
          /\ call.transcript = <<>> => call.ret = Rat(0, 1)
          /\ call.transcript # <<>> => RatLess(Rat(0, 1), call.ret)
    /\ (call.fn = "select_best_transcript" /\ ~call.force_whisper) =>
          /\ (call.youtube_transcript = <<>>
                 /\ call.whisper_transcript # <<>>) =>
                call.ret = call.whisper_transcript
          /\ (call.whisper_transcript = <<>>
                 /\ call.youtube_transcript # <<>>) =>
                call.ret = call.youtube_transcript

C13_Witness ==
    /\ call.fn = "select_best_transcript"
    /\ ~call.force_whisper
    /\ call.youtube_transcript = <<>>
    /\ call.whisper_transcript = <<Entry(0, <<>>)>>
    /\ call.ret = call.whisper_transcript

\* C14: a selection that is not forced returns the speech-to-text corpus only
\* when its score is strictly greater than the native score, and the native
\* corpus when the scores are equal or the native score is higher.
C14_StrictlyGreaterOnly ==
    (call.fn = "select_best_transcript" /\ ~call.force_whisper) =>
        LET youtube_score ==
                EvaluateTranscriptQuality(call.youtube_transcript)
            whisper_score ==
                EvaluateTranscriptQuality(call.whisper_transcript)
        IN  /\ RatLess(youtube_score, whisper_score) =>
                  call.ret = call.whisper_transcript
            /\ ~RatLess(youtube_score, whisper_score) =>
                  call.ret = call.youtube_transcript

C14_Witness ==
    /\ call.fn = "select_best_transcript"
    /\ ~call.force_whisper
    /\ call.youtube_transcript # call.whisper_transcript
    /\ call.youtube_transcript # <<>>
    /\ EvaluateTranscriptQuality(call.youtube_transcript)
           = EvaluateTranscriptQuality(call.whisper_transcript)
    /\ call.ret = call.youtube_transcript

\* C15: a forced selection ignores the scores: the speech-to-text corpus if
\* it is non-empty, otherwise the native corpus if that is non-empty,
\* otherwise an empty corpus.
C15_ForcedIgnoresScores ==
    (call.fn = "select_best_transcript" /\ call.force_whisper) =>
        call.ret = IF call.whisper_transcript # <<>>
                   THEN call.whisper_transcript
                   ELSE IF call.youtube_transcript # <<>>
                        THEN call.youtube_transcript
                        ELSE <<>>

C15_Witness ==
    /\ call.fn = "select_best_transcript"
    /\ call.force_whisper
    /\ call.whisper_transcript # <<>>
    /\ RatLess(EvaluateTranscriptQuality(call.whisper_transcript),
               EvaluateTranscriptQuality(call.youtube_transcript))
    /\ call.ret = call.whisper_transcript

\* the caption fetch of this run failed and no speech-to-text corpus came
FetchFailed ==
    /\ proc.variant \in {"enhanced", "basic"}
    /\ ~proc.youtube.ok
    /\ ~(proc.whisper.use /\ proc.whisper.ok)

\* C16: a failed caption fetch is not an error: the corpus is empty and
\* process() goes on to the frame extraction, and renders whenever frames
\* were extracted, in the enhanced and in the basic extractor.
C16_FetchFailureNotFatal ==
    (FetchFailed /\ proc.stage = "returned") =>
        /\ transcript = <<>>
        /\ proc.extracted
        /\ result.frames # <<>> => proc.rendered

\* C17: process() returns None and never calls the renderer when the frame
\* source could not be opened or the extraction ends with no record; no
\* presentation path is returned for an empty result.
C17_EmptyResultFails ==
    /\ (proc.variant \in {"enhanced", "basic"}
           /\ proc.stage = "returned" /\ result.frames = <<>>) =>
          (proc.ret = "None" /\ ~proc.rendered)
    /\ (proc.variant \in {"enhanced", "basic"} /\ proc.ret = "path") =>
          result.frames # <<>>

C17_Witness ==
    /\ proc.variant = "enhanced"
    /\ proc.stage = "returned"
    /\ video.fps = 0
    /\ cap = "open"
    /\ error
    /\ result = EmptyResult
    /\ proc.ret = "None"
    /\ ~proc.rendered

\* C18 as stated: every key of the returned frame_times is a whole number of
\* seconds, the keys of volume-split records included.
C18_IntegerKeys ==
    \A i \in 1..Len(Times) : Times[i] % TicksPerSec = 0

\* the multiples of the interval that lie before the end of the video,
\* t < total_frames / fps
MultiplesBelowDuration ==
    {Key(t) : t \in {u \in 0..video.total_frames :
                        /\ u % self.interval = 0
                        /\ u * video.fps < video.total_frames}}

\* C20 as stated: the sample times the scheduler visits are exactly the
\* multiples of the interval strictly below the duration, fractional
\* durations included.
C20_VisitsMultiplesBelowDuration ==
    Returned => DOMAIN reads = MultiplesBelowDuration

\* the step that has just read the sample at sec and got no frame
FailedReadStep ==
    /\ pc = "loop"
    /\ Key(sec) \notin DOMAIN reads
    /\ Key(sec) \in DOMAIN reads'
    /\ ~reads'[Key(sec)]

\* the last sample that was read, None before the first
LastReadOk == IF ReadOk = {} THEN NoFrame ELSE Max(ReadOk)

\* C19: a step whose read fails leaves the dedup map, the previous frame,
\* the written images and the attempted splits as they were, and only
\* moves on to the next sample; so the frame the next similarity is taken
\* against is always the last sample that was read.
C19_FailedReadChangesNothing ==
    /\ [][FailedReadStep =>
             /\ UNCHANGED <<frame_dict, prev_frame, files, seg_reads, origin,
                            result, error, cap, pc>>
             /\ sec' = sec + self.interval]_vars
    /\ [](pc = "loop" => prev_frame = LastReadOk)
    /\ [](\A r \in seg_reads : r.t \in ReadOk)

C19_Witness ==
    /\ pc = "loop"
    /\ sec = 2 * self.interval
    /\ Key(0) \in ReadOk
    /\ Key(self.interval) \in DOMAIN reads
    /\ ~reads[Key(self.interval)]
    /\ prev_frame = Key(0)
    /\ frame_dict # <<>>
    /\ sec < IntDuration

\* the entries the segmenter call scans, in the order it scans them
ScannedEntries ==
    SortByStart(TimeRangeEntries(transcript, call.start_time, call.end_time))

\* the starts of the entries at which a running total reaches
\* max_text_length, the total growing by the entry's text length plus
\* separator at each entry and starting again from 0 after each such entry
RECURSIVE StartsWhereTotalReaches(_, _, _)
StartsWhereTotalReaches(entries, total, separator) ==
    IF entries = <<>> THEN <<>>
    ELSE LET now == total + Len(Head(entries).text) + separator
         IN  IF now >= self.max_text_length
             THEN <<Head(entries).start>>
                      \o StartsWhereTotalReaches(Tail(entries), 0, separator)
             ELSE StartsWhereTotalReaches(Tail(entries), now, separator)

\* C21 as stated: after the interval's start, the split points are the
\* starts of the entries at which the summed text length since the last reset
\* reaches max_text_length; entries whose text lengths sum to less than
\* max_text_length give no split point.
C21_SplitsAtSummedLength ==
    call.fn = "_split_text_by_amount" =>
        Tail(call.ret) = StartsWhereTotalReaches(ScannedEntries, 0, 0)

\* C21 amended: the running total counts, for every entry, the length of its
\* text and one more character, the separator put before it.
C21_SplitsAtLengthWithSeparators ==
    call.fn = "_split_text_by_amount" =>
        Tail(call.ret) = StartsWhereTotalReaches(ScannedEntries, 0, 1)

C21_Witness ==
    /\ call.fn = "_split_text_by_amount"
    /\ Len(ScannedEntries) = 2
    /\ TotalLength(ScannedEntries) < self.max_text_length
    /\ Len(call.ret) = 2
    /\ call.ret[2] = ScannedEntries[2].start

\* C22 as stated: an entry returned for segment k of the audio starts at the
\* start the API gave plus k times the segment length, whatever happened to
\* the earlier segments.
C22_OffsetIsCumulative ==
    call.fn = "transcribe_audio" =>
        \A j \in 1..Len(call.all_transcripts) :
            call.all_transcripts[j].start =
                call.sources[j].segment * SegmentLength * TicksPerSec
                    + call.sources[j].start

\* the step that has just read the sample at sec and got its frame
GoodReadStep ==
    /\ pc = "loop"
    /\ Key(sec) \notin DOMAIN reads
    /\ Key(sec) \in DOMAIN reads'
    /\ reads'[Key(sec)]

\* C23: after a sample step whose read succeeded the previous frame is the
\* frame read at that sample time, not one read at a split point of the step,
\* whichever branches fired.
C23_PreviousFrameIsSampleFrame ==
    [][GoodReadStep => prev_frame' = Key(sec)]_vars

C23_Witness ==
    /\ pc = "loop"
    /\ sec > 0
    /\ prev_frame = Key(sec - self.interval)
    /\ \E r \in seg_reads : r.t = prev_frame /\ r.ret /\ r.s > r.t
    /\ origin[prev_frame] = "change"

\* the stripped texts of the entries the query call keeps: those within the
\* window whose stripped text is not empty, in ascending order of start
RECURSIVE KeptTextsOf(_)
KeptTextsOf(sorted) ==
    IF sorted = <<>> THEN <<>>
    ELSE LET text == Strip(Head(sorted).text)
         IN  IF /\ Abs(Head(sorted).start - call.time_sec) <= call.window_size
                /\ text # <<>>
             THEN <<text>> \o KeptTextsOf(Tail(sorted))
             ELSE KeptTextsOf(Tail(sorted))

KeptTexts == KeptTextsOf(SortByStart(transcript))

LineBreaks(text) == Cardinality({i \in 1..Len(text) : text[i] = Newline})

RECURSIVE LineBreaksIn(_)
LineBreaksIn(texts) ==
    IF texts = <<>> THEN 0
    ELSE LineBreaks(Head(texts)) + LineBreaksIn(Tail(texts))

IsQueryCall ==
    call.fn \in {"_get_transcript_at_time", "basic._get_transcript_at_time"}

\* C24: without compact_text the query merges nothing: its result is the kept
\* texts, one per entry in ascending order of start, joined by line breaks,
\* however close the entries are; with compact_text the result holds no line
\* break beyond those inside the entries' texts.
C24_NonCompactNeverMerges ==
    IsQueryCall =>
        IF self.compact_text
        THEN LineBreaks(call.ret) = LineBreaksIn(KeptTexts)
        ELSE call.ret = Join(Newline, KeptTexts)

C24_Witness ==
    /\ IsQueryCall
    /\ ~self.compact_text
    /\ Len(transcript) = 2
    /\ Len(KeptTexts) = 2
    /\ transcript[1].start = 0
    /\ transcript[2].start = 1
    /\ call.ret = KeptTexts[1] \o <<Newline>> \o KeptTexts[2]

\* C27: with compact_text the 2.0 s gap rule cannot be observed: the result
\* is the kept texts in ascending order of start joined by single spaces,
\* whatever the durations of the entries and the gaps between them are.
C27_GapRuleUnobservable ==
    (IsQueryCall /\ self.compact_text) =>
        call.ret = Join(Space, KeptTexts)

C27_Witness ==
    /\ IsQueryCall
    /\ self.compact_text
    /\ Len(transcript) = 2
    /\ Len(KeptTexts) = 2
    /\ transcript[2].start - (transcript[1].start + transcript[1].duration)
           >= GapSeconds * TicksPerSec
    /\ call.ret = KeptTexts[1] \o <<Space>> \o KeptTexts[2]

\* C25: when the change check of the sample at sec runs, sec is not yet a key
\* of frame_dict; so whenever there is a previous frame and the similarity is
\* below the threshold, the change branch creates the record of sec and the
\* periodic branch finds the key and does nothing.
C25_ChangeCheckFindsNoKey ==
    (pc = "loop" /\ sec < IntDuration) =>
        LET key == Key(sec)
            st0 == [fd |-> frame_dict, fl |-> files, og |-> origin,
                    sr |-> seg_reads]
        IN  /\ key \notin DOMAIN frame_dict
            /\ \A similarity \in Similarities, ok \in BOOLEAN :
                  (/\ prev_frame # NoFrame
                   /\ similarity < self.screen_change_threshold) =>
                      LET st1 == ChangeBranch(st0, key, similarity, ok)
                      IN  /\ key \in DOMAIN st1.fd
                          /\ st1.og[key] = "change"
                          /\ PeriodicBranch(st1, key, ok) = st1

C25_Witness ==
    /\ pc = "loop"
    /\ sec < IntDuration
    /\ prev_frame # NoFrame
    /\ origin[prev_frame] = "change"
    /\ \E similarity \in Similarities :
          similarity < self.screen_change_threshold
    /\ \E k \in DOMAIN origin : origin[k] = "split"

\* k is a sample time: a multiple of the interval
IsSampleTime(k) == k % (self.interval * TicksPerSec) = 0

\* C26: every key of frame_dict is a sample time, or the start s of a caption
\* entry with t <= s < t + interval for a sample time t whose text was longer
\* than max_text_length; so a split key is smaller than the next sample time,
\* and no split starts from a split record, however long its own text is.
C26_KeysAreSamplesOrEntryStarts ==
    /\ \A k \in DOMAIN frame_dict :
          \/ origin[k] \in {"change", "periodic"} /\ IsSampleTime(k)
                 /\ k \in ReadOk
          \/ /\ origin[k] = "split"
             /\ \E i \in 1..Len(transcript) : transcript[i].start = k
             /\ \E r \in seg_reads :
                   /\ r.s = k /\ r.ret
                   /\ IsSampleTime(r.t) /\ r.t \in ReadOk
                   /\ r.t <= k /\ k < r.t + self.interval * TicksPerSec
                   /\ Len(WindowText(r.t)) > self.max_text_length
    /\ pc = "loop" => \A k \in DOMAIN frame_dict : k < Key(sec)
    /\ \A r \in seg_reads : origin[r.t] # "split"

C26_Witness ==
    /\ pc = "done"
    /\ \E k \in DOMAIN frame_dict :
          /\ origin[k] = "split"
          /\ ~IsSampleTime(k)
          /\ Len(frame_dict[k].text) > self.max_text_length
          /\ \E t \in DOMAIN frame_dict : t > k /\ IsSampleTime(t)

\* C28 as stated: the segmenter returns the same list of split points for
\* every ordering of the same corpus entries, entries of equal start
\* included.
C28_SplitsOrderIndependent ==
    call.fn = "_split_text_by_amount" =>
        \A tr \in Reorderings(transcript) :
            SplitTextByAmount(tr, call.start_time, call.end_time) = call.ret

\* C29: the branching of download_transcript returns, for every pair of
\* corpora and both values of force_whisper, the corpus that
\* select_best_transcript returns for that pair.
C29_BranchingAgreesWithSelector ==
    call.fn = "download_transcript" =>
        call.ret = SelectBestTranscript(call.youtube_transcript,
                                        call.whisper_transcript,
                                        call.force_whisper)

C29_Witness ==
    /\ call.fn = "download_transcript"
    /\ ~call.force_whisper
    /\ call.youtube_transcript = <<>>
    /\ call.whisper_transcript # <<>>
    /\ call.ret = call.whisper_transcript

\* times lists the members of S in ascending order, each once
ListsAscending(times, S) ==
    /\ Range(times) = S
    /\ \A i \in 1..Len(times) : \A j \in 1..Len(times) :
          i < j => times[i] < times[j]

\* C30: with an empty corpus the enhanced scheduler returns the frame_times
\* that extract_frames of the basic extractor returns for the same duration,
\* interval and read results: both visit the same sample times and return
\* the ones whose read succeeded, in ascending order.
C30_EmptyCorpusMatchesBasic ==
    /\ (proc.variant = "enhanced" /\ pc = "done" /\ transcript = <<>>) =>
          /\ ListsAscending(result.frame_times, ReadOk)
          /\ ~error => DOMAIN reads = SampleKeys
          /\ error => reads = <<>>
    /\ (proc.variant = "basic" /\ pc = "basic_done") =>
          /\ ListsAscending(result.frame_times, ReadOk)
          /\ ~error => DOMAIN reads = SampleKeys
          /\ error => reads = <<>>

C30_Witness ==
    /\ proc.variant = "basic"
    /\ pc = "basic_done"
    /\ ~error
    /\ Len(result.frame_times) = 2
    /\ \E k \in DOMAIN reads :
          ~reads[k] /\ result.frame_times[1] < k /\ k < result.frame_times[2]

====
